---- MODULE Spec2Model ----
(***************************************************************************)
(* Customer Feedback Analysis API (agent-service/app/main.py).             *)
(*                                                                         *)
(* The model follows the FastAPI application: requests to /analyze,        *)
(* /test-graph and / are validated by the FeedbackRequest model, handled   *)
(* by their endpoint functions and answered with a status code and a JSON  *)
(* body.  Strings that the code transforms (strip, lower, join, substring  *)
(* search) are sequences of one-character strings; strings that the code   *)
(* only copies are TLA+ strings.                                           *)
(***************************************************************************)
EXTENDS Integers, Sequences, FiniteSets, TLC

(***************************************************************************)
(* Bounds of the model.                                                    *)
(***************************************************************************)
\* A generated feedback text is the concatenation of at most MaxFrags fragments.
MaxFrags == 3
\* Requests that can be in flight together under the concurrent workload.
NumRequests == 2

(***************************************************************************)
(* Program constants.                                                      *)
(***************************************************************************)
\* FeedbackRequest.model_config["str_min_length"]
str_min_length == 1
\* FeedbackRequest.model_config["str_max_length"]
str_max_length == 10000
\* analyze_feedback: `if len(feedback) > 10000`
MaxFeedbackChars == 10000

(***************************************************************************)
(* Characters and strings.                                                 *)
(***************************************************************************)
\* U+001F (unit separator): whitespace for Python's str.strip(), but not for
\* the whitespace stripping of the request model.
US == "U+001F"
TAB == "\t"
\* The characters str.strip() removes (those of the model's alphabet).
PyWhitespace == {" ", TAB, US}
\* The characters str_strip_whitespace removes (those of the model's alphabet).
ModelWhitespace == {" ", TAB}

UpperToLower ==
  ("A" :> "a") @@ ("B" :> "b") @@ ("C" :> "c") @@ ("D" :> "d") @@ ("E" :> "e") @@ ("F" :> "f") @@ ("G" :> "g") @@ ("H" :> "h") @@ ("I" :> "i") @@ ("J" :> "j") @@ ("K" :> "k") @@ ("L" :> "l") @@ ("M" :> "m") @@ ("N" :> "n") @@ ("O" :> "o") @@ ("P" :> "p") @@ ("Q" :> "q") @@ ("R" :> "r") @@ ("S" :> "s") @@ ("T" :> "t") @@ ("U" :> "u") @@ ("V" :> "v") @@ ("W" :> "w") @@ ("X" :> "x") @@ ("Y" :> "y") @@ ("Z" :> "z")

\* str.lower() on one character.
ToLower(c) == IF c \in DOMAIN UpperToLower THEN UpperToLower[c] ELSE c

\* str.lower() on a string held as a sequence of characters.
StrLower(s) == [i \in 1..Len(s) |-> ToLower(s[i])]

RECURSIVE Concat(_)
\* The concatenation of a sequence of sequences.
Concat(ss) == IF ss = <<>> THEN <<>> ELSE Head(ss) \o Concat(Tail(ss))

RECURSIVE Join(_, _)
\* sep.join(items)
Join(sep, items) ==
  IF items = <<>> THEN <<>>
  ELSE IF Len(items) = 1 THEN items[1]
  ELSE items[1] \o sep \o Join(sep, Tail(items))

(***************************************************************************)
(* Feedback texts.  A feedback text is held run-length encoded, as a       *)
(* sequence of runs <<c, n>> (n >= 1 copies of character c), so that texts *)
(* around the 10,000 character limit stay small values.                    *)
(***************************************************************************)
\* The text of a sequence of characters.
Text(chars) == [i \in 1..Len(chars) |-> <<chars[i], 1>>]

RECURSIVE TextLen(_)
\* len(text)
TextLen(t) == IF t = <<>> THEN 0 ELSE t[1][2] + TextLen(Tail(t))

\* text.lower()
TextLower(t) == [i \in 1..Len(t) |-> <<ToLower(t[i][1]), t[i][2]>>]

\* text with the leading and trailing characters of ws removed.
StripChars(t, ws) ==
  LET keep == {i \in 1..Len(t) : t[i][1] \notin ws}
  IN  IF keep = {} THEN <<>>
      ELSE LET lo == CHOOSE i \in keep : \A j \in keep : i <= j
               hi == CHOOSE i \in keep : \A j \in keep : j <= i
           IN  SubSeq(t, lo, hi)

\* str.strip() left out.
PyStrip_Missing(t) == t

\* str.strip()
PyStrip(t) == StripChars(t, PyWhitespace)

RECURSIVE Unfold(_, _)
\* The characters of text t, each run cut to at most k characters.  A string
\* of k characters occurs in t exactly when it occurs in Unfold(t, k): an
\* occurrence cannot hold a whole run of k or more characters together with a
\* character on each side of it.
Unfold(t, k) ==
  IF t = <<>> THEN <<>>
  ELSE [i \in 1..(IF t[1][2] < k THEN t[1][2] ELSE k) |-> t[1][1]] \o Unfold(Tail(t), k)

\* `word in text` (substring test), word a non-empty sequence of characters.
Contains(t, word) ==
  LET h == Unfold(t, Len(word))
  IN  \E i \in 1..(Len(h) - Len(word) + 1) : SubSeq(h, i, i + Len(word) - 1) = word

\* any(word in text for word in words)
AnyIn(words, t) == \E i \in 1..Len(words) : Contains(t, words[i])

(***************************************************************************)
(* String literals of analyze_feedback.                                    *)
(***************************************************************************)
ComplaintKeywords ==
  << <<"h","a","t","e">>,
     <<"t","e","r","r","i","b","l","e">>,
     <<"a","w","f","u","l">>,
     <<"w","o","r","s","t">>,
     <<"c","o","m","p","l","a","i","n","t">>,
     <<"p","r","o","b","l","e","m">>,
     <<"i","s","s","u","e">>,
     <<"b","r","o","k","e","n">> >>
PraiseKeywords ==
  << <<"l","o","v","e">>,
     <<"a","m","a","z","i","n","g">>,
     <<"e","x","c","e","l","l","e","n","t">>,
     <<"g","r","e","a","t">>,
     <<"f","a","n","t","a","s","t","i","c">>,
     <<"w","o","n","d","e","r","f","u","l">>,
     <<"p","r","a","i","s","e">> >>
SuggestionKeywords ==
  << <<"s","u","g","g","e","s","t">>,
     <<"c","o","u","l","d">>,
     <<"s","h","o","u","l","d">>,
     <<"i","m","p","r","o","v","e">>,
     <<"i","d","e","a">>,
     <<"r","e","c","o","m","m","e","n","d","a","t","i","o","n">> >>
entity_keywords ==
  << <<"p","r","o","d","u","c","t">>,
     <<"s","e","r","v","i","c","e">>,
     <<"s","t","a","f","f">>,
     <<"w","e","b","s","i","t","e">>,
     <<"a","p","p">>,
     <<"d","e","l","i","v","e","r","y">>,
     <<"q","u","a","l","i","t","y">>,
     <<"p","r","i","c","e">>,
     <<"s","u","p","p","o","r","t">> >>
Complaint == <<"C","o","m","p","l","a","i","n","t">>
Praise == <<"P","r","a","i","s","e">>
Suggestion == <<"S","u","g","g","e","s","t","i","o","n">>
Query == <<"Q","u","e","r","y">>
Negative == <<"N","e","g","a","t","i","v","e">>
Positive == <<"P","o","s","i","t","i","v","e">>
Neutral == <<"N","e","u","t","r","a","l">>
GeneralFeedback == <<"g","e","n","e","r","a","l"," ","f","e","e","d","b","a","c","k">>
SummaryHead == <<"C","u","s","t","o","m","e","r"," ","p","r","o","v","i","d","e","d"," ">>
SummaryMid == <<" ","f","e","e","d","b","a","c","k"," ","r","e","g","a","r","d","i","n","g"," ">>
JoinSep == <<","," ">>
TrendMid == <<" ","c","u","s","t","o","m","e","r"," ","s","e","n","t","i","m","e","n","t"," ","i","n"," ">>
TrendTail == <<" ","c","a","t","e","g","o","r","y">>
FallbackSummary == <<"C","u","s","t","o","m","e","r"," ","f","e","e","d","b","a","c","k"," ","p","r","o","c","e","s","s","e","d"," ","w","i","t","h"," ","f","a","l","l","b","a","c","k"," ","a","n","a","l","y","s","i","s">>
FallbackTrend == <<"F","a","l","l","b","a","c","k"," ","a","n","a","l","y","s","i","s"," ","d","u","e"," ","t","o"," ","s","y","s","t","e","m"," ","l","i","m","i","t","a","t","i","o","n","s">>
TrueLiteral == <<"t","r","u","e">>
FalseLiteral == <<"f","a","l","s","e">>
ProductionLiteral == <<"p","r","o","d","u","c","t","i","o","n">>
DevelopmentLiteral == <<"d","e","v","e","l","o","p","m","e","n","t">>

(***************************************************************************)
(* The keyword classifier of demo mode (pure functions of the text).       *)
(***************************************************************************)
\* MatchedRule with the Praise branch tested before the Complaint branch.
MatchedRule_PraiseFirst(feedback_lower) ==
  IF AnyIn(PraiseKeywords, feedback_lower) THEN 2
  ELSE IF AnyIn(ComplaintKeywords, feedback_lower) THEN 1
  ELSE IF AnyIn(SuggestionKeywords, feedback_lower) THEN 3
  ELSE 4

\* The if/elif chain over feedback_lower: the number of the first branch whose
\* condition holds (4: the else branch).
MatchedRule(feedback_lower) ==
  IF AnyIn(ComplaintKeywords, feedback_lower) THEN 1
  ELSE IF AnyIn(PraiseKeywords, feedback_lower) THEN 2
  ELSE IF AnyIn(SuggestionKeywords, feedback_lower) THEN 3
  ELSE 4

\* The assignments to category, sentiment, priority, route and action_items
\* in branch i of the chain.
RuleAssignments(i) ==
  CASE i = 1 ->
    [category |-> Complaint, sentiment |-> Negative, priority |-> "High",
     route |-> "Customer Service Team",
     action_items |-> << "Contact customer within 24 hours to address concerns",
                         "Investigate reported issues and provide solutions",
                         "Follow up to ensure customer satisfaction" >>]
    [] i = 2 ->
    [category |-> Praise, sentiment |-> Positive, priority |-> "Medium",
     route |-> "HR/Employee Recognition",
     action_items |-> << "Share positive feedback with relevant team members",
                         "Consider featuring this feedback in marketing materials",
                         "Recognize employees mentioned in the feedback" >>]
    [] i = 3 ->
    [category |-> Suggestion, sentiment |-> Neutral, priority |-> "Medium",
     route |-> "Product Development",
     action_items |-> << "Review suggestion with product development team",
                         "Assess feasibility of implementing suggested improvements",
                         "Consider including in product roadmap" >>]
    [] OTHER ->
    [category |-> Query, sentiment |-> Neutral, priority |-> "Low",
     route |-> "FAQ/Knowledge Base Update",
     action_items |-> << "Provide detailed response to customer query",
                         "Update FAQ if this is a common question",
                         "Ensure knowledge base has relevant information" >>]

\* CategoryRule with the Suggestion branch assigning the category of the else
\* branch (its other assignments unchanged).
CategoryRule_SuggestionAsQuery(feedback_lower) ==
  LET i == MatchedRule(feedback_lower)
  IN  IF i = 3 THEN [RuleAssignments(3) EXCEPT !.category = Query] ELSE RuleAssignments(i)

\* category, sentiment, priority, route and action_items for feedback_lower.
CategoryRule(feedback_lower) == RuleAssignments(MatchedRule(feedback_lower))

RECURSIVE EntityLoop(_, _)
\* for keyword in entity_keywords: if keyword in feedback_lower: entities.append(keyword)
\* (the keywords appended from the i-th keyword on, in the order of the loop).
EntityLoop(feedback_lower, i) ==
  IF i > Len(entity_keywords) THEN <<>>
  ELSE (IF Contains(feedback_lower, entity_keywords[i]) THEN <<entity_keywords[i]>> ELSE <<>>)
         \o EntityLoop(feedback_lower, i + 1)

\* ExtractEntities without the `if not entities` default.
ExtractEntities_NoDefault(feedback_lower) == EntityLoop(feedback_lower, 1)

\* The entities of the result: the loop's list, or ["general feedback"].
ExtractEntities(feedback_lower) ==
  LET entities == EntityLoop(feedback_lower, 1)
  IN  IF entities = <<>> THEN <<GeneralFeedback>> ELSE entities

\* SummaryOf without sentiment.lower().
SummaryOf_NoLower(sentiment, entities) ==
  SummaryHead \o sentiment \o SummaryMid \o Join(JoinSep, entities)

\* The summary f-string.
SummaryOf(sentiment, entities) ==
  SummaryHead \o StrLower(sentiment) \o SummaryMid \o Join(JoinSep, entities)

\* The trend_analysis f-string.
TrendOf(sentiment, category) ==
  sentiment \o TrendMid \o StrLower(category) \o TrendTail

\* The response analyze_feedback returns in demo mode for the stripped text.
DemoResponse(feedback) ==
  LET feedback_lower == TextLower(feedback)
      rule == CategoryRule(feedback_lower)
      entities == ExtractEntities(feedback_lower)
  IN  [status |-> "success",
       result |-> [feedback |-> feedback,
                   category |-> rule.category,
                   entities |-> entities,
                   summary |-> SummaryOf(rule.sentiment, entities),
                   sentiment |-> rule.sentiment,
                   priority |-> rule.priority,
                   route |-> rule.route,
                   action_items |-> rule.action_items,
                   trend_analysis |-> TrendOf(rule.sentiment, rule.category)]]

\* FallbackResponse without the "note" key.
FallbackResponse_NoNote(feedback) ==
  [status |-> "success",
   result |-> [feedback |-> feedback,
               category |-> Query,
               entities |-> <<GeneralFeedback>>,
               summary |-> FallbackSummary,
               sentiment |-> Neutral,
               priority |-> "Medium",
               route |-> "General Support",
               action_items |-> << "Review customer feedback manually" >>,
               trend_analysis |-> FallbackTrend]]

\* The response analyze_feedback returns when the graph invocation raised.
FallbackResponse(feedback) ==
  [status |-> "success",
   result |-> [feedback |-> feedback,
               category |-> Query,
               entities |-> <<GeneralFeedback>>,
               summary |-> FallbackSummary,
               sentiment |-> Neutral,
               priority |-> "Medium",
               route |-> "General Support",
               action_items |-> << "Review customer feedback manually" >>,
               trend_analysis |-> FallbackTrend],
   note |-> "Processed with fallback analysis"]

(***************************************************************************)
(* The agent graph (app.agent.graph), an external collaborator: invoke     *)
(* either raises or returns a state, as an object or as a mapping; a       *)
(* returned value may fail to encode as JSON.                              *)
(***************************************************************************)
\* Texts of the exceptions the graph may raise.
GraphErrors == {"AuthenticationError: Incorrect API key provided: sk-live-1234"}

\* Analyses the graph may return for a feedback text (unconstrained by the
\* classifier's rules).
GraphStates(feedback) ==
  { [feedback |-> feedback, category |-> Praise, entities |-> <<>>,
     summary |-> <<>>, sentiment |-> Negative, priority |-> "Low",
     route |-> "Sales", action_items |-> <<>>, trend_analysis |-> <<>>] }

\* The outcomes of agent_graph.invoke(State(feedback=feedback)).
GraphOutcomes(feedback) ==
  {[kind |-> "raises", error |-> e] : e \in GraphErrors}
    \cup {[kind |-> "returns", as |-> a, value |-> v] :
            a \in {"object", "dict"}, v \in GraphStates(feedback)}
    \cup {[kind |-> "unencodable", error |-> "ValueError: object is not JSON serializable"]}

(***************************************************************************)
(* The feedback texts clients send.                                        *)
(***************************************************************************)
\* A run of n filler characters (a character of no keyword).
Filler(n) == << <<"x", n>> >>

\* The fragments generated texts are made of: a keyword of each category rule
\* (one in upper case), and two entity keywords (one inside a longer word).
Fragments ==
  { Text(<<"H","A","T","E">>), Text(<<"l","o","v","e">>), Text(<<"c","o","u","l","d">>),
    Text(<<"H","a","p","p","y">>), Text(<<"p","r","i","c","e">>) }

\* Every concatenation of at most MaxFrags fragments (the empty text included).
GeneratedTexts ==
  UNION { {Concat(f) : f \in [1..k -> Fragments]} : k \in 0..MaxFrags }

\* Texts with surrounding whitespace, and texts at the length limit.
BoundaryTexts ==
  { Text(<<" ">>),
    Text(<<US>>),
    Text(<<" ", TAB>>),
    Text(<<" ","H","A","T","E"," ","p","r","i","c","e",TAB>>),
    Text(<<US,"l","o","v","e"," ">>),
    Text(<<"w","h","a","t","?">>),
    Filler(MaxFeedbackChars),
    Filler(MaxFeedbackChars + 1),
    Text(<<" ">>) \o Filler(MaxFeedbackChars),
    Text(<<US>>) \o Filler(MaxFeedbackChars),
    Filler(MaxFeedbackChars - 4) \o Text(<<"h","a","t","e">>),
    Filler(MaxFeedbackChars - 3) \o Text(<<"h","a","t","e">>) }

\* The texts of the sequential workload.
AllTexts == GeneratedTexts \cup BoundaryTexts

\* The texts of the concurrent workload.
ConcurrentTexts ==
  { Text(<<"H","A","T","E">>),
    Text(<<"p","r","i","c","e"," ","l","o","v","e"," ","a","p","p">>) }

(***************************************************************************)
(* State.                                                                  *)
(***************************************************************************)
VARIABLES
  env,       \* os.environ: name -> <<>> (unset) or <<value>>
  workload,  \* "sequential": one request at a time; "concurrent": NumRequests together
  req        \* request id -> the request, its handler's position and its response;
             \* calls: which of the classifier and agent_graph.invoke ran for it,
             \* invoke: how agent_graph.invoke ended, exc: the exception raised

vars == <<env, workload, req>>

Requests == 1..NumRequests

\* The requests clients issue under a workload, and the texts they send.
ActiveRequests(w) == IF w = "sequential" THEN {1} ELSE Requests
TextsOf(w) == IF w = "sequential" THEN AllTexts ELSE ConcurrentTexts

\* A mapping without keys (no response body yet).
NoBody == <<>>

Idle ==
  [endpoint |-> "none", pc |-> "idle", raw |-> <<>>, feedback |-> <<>>,
   calls |-> {}, invoke |-> "none", exc |-> <<>>, status |-> 0, body |-> NoBody]

\* os.getenv(name, default)
Getenv(name, default) == IF env[name] = <<>> THEN default ELSE env[name][1]

\* AnalyzeDemoMode with the default of index and startup_event ("false").
AnalyzeDemoMode_DefaultFalse == StrLower(Getenv("DEMO_MODE", FalseLiteral)) = TrueLiteral

\* analyze_feedback: demo_mode = os.getenv("DEMO_MODE", "true").lower() == "true"
AnalyzeDemoMode == StrLower(Getenv("DEMO_MODE", TrueLiteral)) = TrueLiteral

\* index: "demo_mode": os.getenv("DEMO_MODE", "false").lower() == "true"
IndexDemoMode == StrLower(Getenv("DEMO_MODE", FalseLiteral)) = TrueLiteral

\* Module level: the /test-graph route is registered when
\* os.getenv("ENABLE_LANGSERVE", "false").lower() == "true".
LangserveEnabled == StrLower(Getenv("ENABLE_LANGSERVE", FalseLiteral)) = TrueLiteral

\* The values the environment variables may have.
EnvValues ==
  [ DEMO_MODE : {<<>>, << <<"T","r","u","e">> >>, <<FalseLiteral>>, << <<"y","e","s">> >>},
    ENVIRONMENT : {<<>>, <<ProductionLiteral>>},
    ENABLE_LANGSERVE : {<<>>, <<TrueLiteral>>} ]

Init ==
  /\ env \in EnvValues
  /\ workload \in {"sequential", "concurrent"}
  /\ req = [r \in Requests |-> Idle]

\* The response that ends request r.
Respond(r, status, body) ==
  req' = [req EXCEPT ![r] = [@ EXCEPT !.pc = "done", !.status = status, !.body = body]]

\* The response that ends request r after agent_graph.invoke ended with outcome.
RespondInvoked(r, status, body, outcome) ==
  req' = [req EXCEPT ![r] =
            [@ EXCEPT !.pc = "done", !.status = status, !.body = body,
                      !.calls = @ \cup {"agent_graph"},
                      !.invoke = IF outcome.kind = "raises" THEN "raised" ELSE "returned",
                      !.exc = IF outcome.kind = "returns" THEN <<>> ELSE <<outcome.error>>]]

(***************************************************************************)
(* Request validation by the FeedbackRequest model.                        *)
(***************************************************************************)
\* FeedbackRequest.feedback for a raw text: stripped of whitespace, then
\* checked against str_min_length and str_max_length.
ModelStrip(raw) == StripChars(raw, ModelWhitespace)

\* FeedbackRequestValid with the maximum length excluded.
FeedbackRequestValid_MaxExcluded(raw) ==
  /\ TextLen(ModelStrip(raw)) >= str_min_length
  /\ TextLen(ModelStrip(raw)) < str_max_length

\* The validation of FeedbackRequest.feedback.
FeedbackRequestValid(raw) ==
  /\ TextLen(ModelStrip(raw)) >= str_min_length
  /\ TextLen(ModelStrip(raw)) <= str_max_length

\* A client posts raw to /analyze or /test-graph: the route is looked up, the
\* body is validated, and the endpoint function is entered or the request is
\* answered 404 or 422.
Post(r) ==
  /\ r \in ActiveRequests(workload)
  /\ req[r].pc = "idle"
  /\ \E endpoint \in {"analyze", "test_graph"}, raw \in TextsOf(workload) :
       LET q == [req[r] EXCEPT !.endpoint = endpoint, !.raw = raw]
       IN  IF endpoint = "test_graph" /\ ~LangserveEnabled
           THEN req' = [req EXCEPT ![r] =
                          [q EXCEPT !.pc = "done", !.status = 404,
                                    !.body = [detail |-> "Not Found"]]]
           ELSE IF ~FeedbackRequestValid(raw)
           THEN req' = [req EXCEPT ![r] =
                          [q EXCEPT !.pc = "done", !.status = 422,
                                    !.body = [detail |-> "request validation errors"]]]
           ELSE req' = [req EXCEPT ![r] =
                          [q EXCEPT !.pc = endpoint, !.feedback = ModelStrip(raw)]]
  /\ UNCHANGED <<env, workload>>

(***************************************************************************)
(* GET /                                                                   *)
(***************************************************************************)
Index(r) ==
  /\ r \in ActiveRequests(workload)
  /\ req[r].pc = "idle"
  /\ req' = [req EXCEPT ![r] =
               [@ EXCEPT !.endpoint = "index", !.pc = "done", !.status = 200,
                         !.body = [status |-> "ok",
                                   environment |-> Getenv("ENVIRONMENT", DevelopmentLiteral),
                                   demo_mode |-> IndexDemoMode]]]
  /\ UNCHANGED <<env, workload>>

(***************************************************************************)
(* POST /analyze                                                           *)
(***************************************************************************)
\* feedback kept in one variable shared by the requests in flight: a handler
\* reads what the lowest-numbered request in flight stored.
FeedbackOf_Shared(r) ==
  LET inflight == {q \in Requests : req[q].pc \notin {"idle", "done"}}
  IN  req[CHOOSE q \in inflight : \A o \in inflight : q <= o].feedback

\* The handler's local variable feedback of request r.
FeedbackOf(r) == req[r].feedback

\* The start of analyze_feedback: strip, the two length checks, and the mode.
AnalyzeEntry(r) ==
  /\ req[r].pc = "analyze"
  /\ LET feedback == PyStrip(FeedbackOf(r))
     IN  IF TextLen(feedback) = 0
         THEN Respond(r, 400, [detail |-> "Feedback text cannot be empty"])
         ELSE IF TextLen(feedback) > MaxFeedbackChars
         THEN Respond(r, 400, [detail |-> "Feedback text too long (max 10,000 characters)"])
         ELSE req' = [req EXCEPT ![r] =
                        [@ EXCEPT !.feedback = feedback,
                                  !.pc = IF AnalyzeDemoMode THEN "demo" ELSE "pipeline"]]
  /\ UNCHANGED <<env, workload>>

\* Demo mode: the keyword classifier builds the response.
AnalyzeDemo(r) ==
  /\ req[r].pc = "demo"
  /\ req' = [req EXCEPT ![r] =
               [@ EXCEPT !.pc = "done", !.status = 200, !.body = DemoResponse(FeedbackOf(r)),
                         !.calls = @ \cup {"classifier"}]]
  /\ UNCHANGED <<env, workload>>

\* The response of the production branch of analyze_feedback for an outcome
\* of agent_graph.invoke: the result (its __dict__ when it has one), or the
\* fallback when the invocation raised.
PipelineResponse(feedback, outcome) ==
  IF outcome.kind = "raises" THEN FallbackResponse(feedback)
  ELSE [status |-> "success", result |-> outcome.value]

\* general_exception_handler
GeneralExceptionResponse == [status |-> "error", message |-> "Internal server error"]

\* Production mode: the graph is invoked; a raised error is replaced by the
\* fallback; a returned value that cannot be encoded fails after the handler
\* returned and is answered by general_exception_handler.
AnalyzePipeline(r) ==
  /\ req[r].pc = "pipeline"
  /\ \E outcome \in GraphOutcomes(FeedbackOf(r)) :
       IF outcome.kind = "unencodable"
       THEN RespondInvoked(r, 500, GeneralExceptionResponse, outcome)
       ELSE RespondInvoked(r, 200, PipelineResponse(FeedbackOf(r), outcome), outcome)
  /\ UNCHANGED <<env, workload>>

(***************************************************************************)
(* POST /test-graph                                                        *)
(***************************************************************************)
TestGraph(r) ==
  /\ req[r].pc = "test_graph"
  /\ IF Getenv("ENVIRONMENT", <<>>) = ProductionLiteral
     THEN Respond(r, 404, [detail |-> "Not found"])
     ELSE \E outcome \in GraphOutcomes(FeedbackOf(r)) :
            IF outcome.kind = "raises"
            THEN RespondInvoked(r, 200, [status |-> "error", error |-> outcome.error], outcome)
            ELSE IF outcome.kind = "unencodable"
            THEN RespondInvoked(r, 500, GeneralExceptionResponse, outcome)
            ELSE RespondInvoked(r, 200, [status |-> "success", result |-> outcome.value],
                                outcome)
  /\ UNCHANGED <<env, workload>>

Step(r) ==
  \/ Post(r)
  \/ Index(r)
  \/ AnalyzeEntry(r)
  \/ AnalyzeDemo(r)
  \/ AnalyzePipeline(r)
  \/ TestGraph(r)

Next == \E r \in Requests : Step(r)

Spec == Init /\ [][Next]_vars

(***************************************************************************)
(* Vocabulary of the properties.                                           *)
(***************************************************************************)
\* The elements of a sequence.
Range(seq) == {seq[i] : i \in 1..Len(seq)}

\* word occurs in text t as a substring, letter case ignored.
OccursIn(word, t) ==
  LET h == Unfold(t, Len(word))
  IN  \E i \in 0..(Len(h) - Len(word)) :
        \A j \in 1..Len(word) : ToLower(h[i + j]) = ToLower(word[j])

\* Some word of words occurs in t, letter case ignored.
SomeOccursIn(words, t) == \E w \in Range(words) : OccursIn(w, t)

\* Whitespace stripping as the properties mean it: every whitespace character
\* at either end of the text removed.
Stripped(raw) == StripChars(raw, {" ", TAB, US})

\* Demo mode is in effect: DEMO_MODE is absent, or is "true" in any letter case.
DemoInEffect ==
  \/ env.DEMO_MODE = <<>>
  \/ /\ env.DEMO_MODE # <<>>
     /\ StrLower(env.DEMO_MODE[1]) = <<"t","r","u","e">>

\* Request r is an /analyze request that has been answered.
Answered(r) == req[r].endpoint = "analyze" /\ req[r].pc = "done"

\* Request r is an /analyze request whose feedback was accepted and answered
\* in demo mode.
DemoAnswered(r) == Answered(r) /\ DemoInEffect /\ req[r].status = 200

\* The result of request r was built by the keyword classifier.
ClassifierBuilt(r) == Answered(r) /\ "classifier" \in req[r].calls

\* The result of request r is the fallback substituted after the graph raised.
FallbackBuilt(r) == Answered(r) /\ req[r].invoke = "raised"

\* sentiment, priority, route and action_items of a result.
TupleOf(result) ==
  <<result.sentiment, result.priority, result.route, result.action_items>>

(***************************************************************************)
(* C1.  In demo mode the category of every accepted feedback is chosen by  *)
(* first match over the ordered keyword sets, the keywords matched as      *)
(* substrings with letter case ignored: Complaint if a Complaint keyword   *)
(* occurs (also when Praise or Suggestion keywords occur too), else Praise *)
(* if a Praise keyword occurs (also when Suggestion keywords occur too),   *)
(* else Suggestion if a Suggestion keyword occurs, else Query.             *)
(***************************************************************************)
C1_FirstMatchWins ==
  \A r \in Requests :
    DemoAnswered(r) =>
      LET t == req[r].raw
          category == req[r].body.result.category
          c == SomeOccursIn(ComplaintKeywords, t)
          p == SomeOccursIn(PraiseKeywords, t)
          g == SomeOccursIn(SuggestionKeywords, t)
      IN  /\ c => category = Complaint
          /\ (~c /\ p) => category = Praise
          /\ (~c /\ ~p /\ g) => category = Suggestion
          /\ (~c /\ ~p /\ ~g) => category = Query

\* A feedback with a Complaint, a Praise and a Suggestion keyword was answered
\* Complaint in demo mode.
C1_Witness ==
  \E r \in Requests :
    /\ DemoAnswered(r)
    /\ SomeOccursIn(ComplaintKeywords, req[r].raw)
    /\ SomeOccursIn(PraiseKeywords, req[r].raw)
    /\ SomeOccursIn(SuggestionKeywords, req[r].raw)
    /\ req[r].body.result.category = Complaint

(***************************************************************************)
(* C2.  As claimed: in every result analyze_feedback builds itself (by the *)
(* classifier or as the fallback), sentiment, priority, route and          *)
(* action_items are a function of category alone: it has the tuple of      *)
(* every result of the same category that the classifier builds.           *)
(***************************************************************************)
\* Texts whose classifier results have the four categories.
CategoryProbes ==
  { Text(<<"h","a","t","e">>), Text(<<"l","o","v","e">>),
    Text(<<"c","o","u","l","d">>), Text(<<"w","h","a","t","?">>) }

\* result has the tuple of every classifier result of its category.
AgreesWithClassifier(result) ==
  \A t \in CategoryProbes :
    DemoResponse(t).result.category = result.category
      => TupleOf(DemoResponse(t).result) = TupleOf(result)

C2_TupleByCategory ==
  \A r \in Requests :
    (ClassifierBuilt(r) \/ FallbackBuilt(r)) => AgreesWithClassifier(req[r].body.result)

(***************************************************************************)
(* C2, amended.  In every result built by the keyword classifier the       *)
(* category is one of Complaint, Praise, Suggestion, Query and sentiment,  *)
(* priority, route and action_items are a function of category alone; the *)
(* fallback result is a fifth fixed tuple, of category Query: Neutral,     *)
(* Medium, "General Support", ["Review customer feedback manually"].       *)
(***************************************************************************)
C2_ClassifierTupleByCategory ==
  \A r \in Requests :
    /\ ClassifierBuilt(r) =>
         /\ req[r].body.result.category \in {Complaint, Praise, Suggestion, Query}
         /\ AgreesWithClassifier(req[r].body.result)
    /\ FallbackBuilt(r) =>
         /\ req[r].body.result.category = Query
         /\ TupleOf(req[r].body.result) =
              <<Neutral, "Medium", "General Support", <<"Review customer feedback manually">> >>

\* The classifier built a result for a feedback with a Suggestion keyword and
\* no Complaint or Praise keyword.
C2_Witness ==
  \E r \in Requests :
    /\ ClassifierBuilt(r)
    /\ SomeOccursIn(SuggestionKeywords, req[r].raw)
    /\ req[r].body.result.category = Suggestion

(***************************************************************************)
(* C3.  In demo mode the entities of every accepted feedback are exactly   *)
(* the keywords of the vocabulary that occur in it as substrings, letter   *)
(* case ignored, each once, in vocabulary order; when none occurs the list *)
(* is ["general feedback"], so the list is never empty.                    *)
(***************************************************************************)
\* The position of keyword k in the vocabulary.
VocabularyIndex(k) == CHOOSE i \in 1..Len(entity_keywords) : entity_keywords[i] = k

C3_EntitiesInVocabularyOrder ==
  \A r \in Requests :
    DemoAnswered(r) =>
      LET t == req[r].raw
          entities == req[r].body.result.entities
      IN  /\ entities # <<>>
          /\ IF SomeOccursIn(entity_keywords, t)
             THEN /\ Range(entities) = {k \in Range(entity_keywords) : OccursIn(k, t)}
                  /\ \A i, j \in 1..Len(entities) :
                       i < j => VocabularyIndex(entities[i]) < VocabularyIndex(entities[j])
             ELSE entities = << <<"g","e","n","e","r","a","l"," ","f","e","e","d","b","a","c","k">> >>

\* A feedback naming "price" before "app" was answered with entities
\* ["app", "price"].
C3_Witness ==
  \E r \in Requests :
    /\ DemoAnswered(r)
    /\ req[r].raw = Text(<<"p","r","i","c","e">>) \o Text(<<"H","a","p","p","y">>)
    /\ req[r].body.result.entities = << <<"a","p","p">>, <<"p","r","i","c","e">> >>

(***************************************************************************)
(* C4.  In pipeline mode, whenever the graph invocation raises for an      *)
(* accepted feedback, analyze_feedback answers without an error: status    *)
(* "success", a result with category Query, entities ["general feedback"], *)
(* sentiment Neutral, priority Medium, route "General Support",            *)
(* action_items ["Review customer feedback manually"], trend_analysis      *)
(* "Fallback analysis due to system limitations", and a "note" key.        *)
(***************************************************************************)
C4_FallbackOnGraphError ==
  \A r \in Requests :
    (Answered(r) /\ req[r].invoke = "raised") =>
      /\ req[r].status = 200
      /\ DOMAIN req[r].body = {"status", "result", "note"}
      /\ req[r].body.status = "success"
      /\ req[r].body.result.category = <<"Q","u","e","r","y">>
      /\ req[r].body.result.entities =
           << <<"g","e","n","e","r","a","l"," ","f","e","e","d","b","a","c","k">> >>
      /\ req[r].body.result.sentiment = <<"N","e","u","t","r","a","l">>
      /\ req[r].body.result.priority = "Medium"
      /\ req[r].body.result.route = "General Support"
      /\ req[r].body.result.action_items = <<"Review customer feedback manually">>
      /\ req[r].body.result.trend_analysis = FallbackTrend

\* An /analyze request was answered after the graph invocation raised.
C4_Witness ==
  \E r \in Requests :
    /\ Answered(r)
    /\ ~DemoInEffect
    /\ req[r].invoke = "raised"
    /\ req[r].exc # <<>>

(***************************************************************************)
(* C5.  An /analyze request whose feedback is empty after whitespace       *)
(* stripping, or longer than 10,000 characters after it, is rejected with  *)
(* a client error before the classifier or the graph is invoked: neither   *)
(* ever runs for it, and once rejected the request is never handled again. *)
(***************************************************************************)
\* The feedback of request r is empty or over-length.
InvalidFeedback(r) ==
  /\ req[r].endpoint = "analyze"
  /\ \/ TextLen(Stripped(req[r].raw)) = 0
     \/ TextLen(Stripped(req[r].raw)) > 10000

\* Request r was rejected with a client error.
Rejected(r) == req[r].pc = "done" /\ req[r].status \in {400, 422}

C6_TotalOnNonEmpty ==
  \A r \in Requests :
    (Answered(r) /\ DemoInEffect /\ TextLen(req[r].raw) >= 1 /\ TextLen(req[r].raw) <= 10000)
      => (req[r].status = 200 /\ req[r].body.status = "success")

(***************************************************************************)
(* C6, amended.  Every demo-mode /analyze request whose feedback is        *)
(* non-empty after whitespace stripping and, as stripped by the request    *)
(* model, at most 10,000 characters long, terminates with a status         *)
(* "success" response carrying a complete FeedbackAnalysis (feedback,      *)
(* category, entities, summary, sentiment, priority, route, action_items   *)
(* and trend_analysis all set), and never ends in an error.                *)
(***************************************************************************)
\* The feedback of /analyze request r passes validation.
ValidFeedback(r) ==
  /\ req[r].endpoint = "analyze"
  /\ TextLen(Stripped(req[r].raw)) >= 1
  /\ TextLen(StripChars(req[r].raw, {" ", TAB})) <= 10000

\* Request r was answered "success" with every field of the analysis set.
CompleteSuccess(r) ==
  /\ req[r].pc = "done"
  /\ req[r].status = 200
  /\ req[r].body.status = "success"
  /\ DOMAIN req[r].body.result =
       {"feedback", "category", "entities", "summary", "sentiment", "priority",
        "route", "action_items", "trend_analysis"}
  /\ \A k \in {"feedback", "category", "entities", "summary", "sentiment",
               "action_items", "trend_analysis"} : req[r].body.result[k] # <<>>
  /\ req[r].body.result.priority # ""
  /\ req[r].body.result.route # ""

\* The handler steps that remain from a position.
StepsLeft(pc) ==
  CASE pc = "idle" -> 3
    [] pc \in {"analyze", "test_graph"} -> 2
    [] pc \in {"demo", "pipeline"} -> 1
    [] OTHER -> 0

\* A received request is at a position of the classifier path, whose steps
\* (AnalyzeEntry, AnalyzeDemo) wait for nothing but the position; every step
\* of a request brings it nearer to its response; and the response is the
\* complete success.
C6_TotalOnValid ==
  /\ [](\A r \in Requests :
          (ValidFeedback(r) /\ DemoInEffect) =>
            /\ req[r].pc \in {"analyze", "demo", "done"}
            /\ req[r].pc = "done" => CompleteSuccess(r))
  /\ [][\A r \in Requests :
          req'[r] # req[r] => StepsLeft(req'[r].pc) < StepsLeft(req[r].pc)]_vars

\* A feedback of exactly 10,000 characters after stripping, sent with leading
\* whitespace, was answered in demo mode.
C6_Witness ==
  \E r \in Requests :
    /\ ValidFeedback(r)
    /\ DemoInEffect
    /\ TextLen(req[r].raw) > 10000
    /\ CompleteSuccess(r)

(***************************************************************************)
(* C7.  Every unexpected failure while handling a request is answered with *)
(* the generic server error, whose body is a fixed message, and no         *)
(* response of any endpoint contains the text of the internal exception.   *)
(***************************************************************************)
\* The keys of a response body whose values are texts.
TextKeys == {"status", "detail", "message", "error", "note"}

C7_NoInternalDetails ==
  \A r \in Requests :
    (req[r].pc = "done" /\ req[r].exc # <<>>) =>
      /\ \A k \in TextKeys \cap DOMAIN req[r].body : req[r].body[k] # req[r].exc[1]
      /\ ~FallbackBuilt(r) =>
           /\ req[r].status = 500
           /\ req[r].body = [status |-> "error", message |-> "Internal server error"]

(***************************************************************************)
(* C8.  The demo-mode analysis is a function of the feedback text alone:   *)
(* under any interleaving of concurrent requests every answered request    *)
(* has the response it gets when it runs alone, and two requests with the  *)
(* same feedback have equal responses.                                     *)
(***************************************************************************)
\* The response to feedback raw of a demo-mode request that runs alone.
AloneResponse(raw) == DemoResponse(Stripped(raw))

C8_PureUnderInterleaving ==
  \A r \in Requests :
    DemoAnswered(r) =>
      /\ req[r].body = AloneResponse(req[r].raw)
      /\ \A q \in Requests :
           (DemoAnswered(q) /\ req[q].raw = req[r].raw) => req[q].body = req[r].body

\* Two requests with different feedback were in flight together: one has
\* been answered while the other is in the classifier branch.
C8_Witness ==
  \E r, q \in Requests :
    /\ r > q
    /\ DemoAnswered(r)
    /\ req[q].pc = "demo"
    /\ req[q].raw # req[r].raw
    /\ req[r].body.result.category # DemoResponse(req[q].raw).result.category

(***************************************************************************)
(* C9.  As claimed: while demo mode is in effect (DEMO_MODE absent         *)
(* included) no request that is handled invokes the agent graph.           *)
(***************************************************************************)
C9_NoInvokeInDemoMode ==
  \A r \in Requests : DemoInEffect => "agent_graph" \notin req[r].calls

(***************************************************************************)
(* C9, amended.  For every /analyze request handled while demo mode is in  *)
(* effect (DEMO_MODE absent included) agent_graph.invoke is never called   *)
(* and an accepted request's result comes from the keyword classifier; in  *)
(* production mode the classifier's rules are never applied.  (The         *)
(* /test-graph endpoint invokes the graph whatever the mode.)              *)
(***************************************************************************)
C9_AnalyzeInvokesOnlyInProduction ==
  \A r \in Requests :
    req[r].endpoint = "analyze" =>
      /\ DemoInEffect =>
           /\ "agent_graph" \notin req[r].calls
           /\ req[r].pc # "pipeline"
           /\ (req[r].pc = "done" /\ req[r].status = 200) => "classifier" \in req[r].calls
      /\ ~DemoInEffect =>
           /\ "classifier" \notin req[r].calls
           /\ req[r].pc # "demo"

\* DEMO_MODE is absent and an /analyze request was answered by the classifier.
C9_Witness ==
  \E r \in Requests :
    /\ env.DEMO_MODE = <<>>
    /\ Answered(r)
    /\ req[r].calls = {"classifier"}

(***************************************************************************)
(* C10.  In every result built by the keyword classifier, summary is       *)
(* "Customer provided " + the lower-cased sentiment + " feedback regarding *)
(* " + the entities joined by ", ", trend_analysis is sentiment +          *)
(* " customer sentiment in " + the lower-cased category + " category",     *)
(* with sentiment, category and entities those of the same result, and     *)
(* feedback is the stripped input text.                                    *)
(***************************************************************************)
C10_DerivedTexts ==
  \A r \in Requests :
    ClassifierBuilt(r) =>
      LET res == req[r].body.result
      IN  /\ res.summary =
               <<"C","u","s","t","o","m","e","r"," ","p","r","o","v","i","d","e","d"," ">>
                 \o StrLower(res.sentiment)
                 \o <<" ","f","e","e","d","b","a","c","k"," ","r","e","g","a","r","d","i","n","g"," ">>
                 \o Join(<<",", " ">>, res.entities)
          /\ res.trend_analysis =
               res.sentiment
                 \o <<" ","c","u","s","t","o","m","e","r"," ","s","e","n","t","i","m","e","n","t"," ","i","n"," ">>
                 \o StrLower(res.category)
                 \o <<" ","c","a","t","e","g","o","r","y">>
          /\ res.feedback = Stripped(req[r].raw)

\* The classifier built a Negative result with entity "price" for a feedback
\* sent with surrounding whitespace.
C10_Witness ==
  \E r \in Requests :
    /\ ClassifierBuilt(r)
    /\ req[r].body.result.feedback # req[r].raw
    /\ req[r].body.result.sentiment = Negative
    /\ req[r].body.result.entities = << <<"p","r","i","c","e">> >>

(***************************************************************************)
(* C11.  For every value of DEMO_MODE, absent included, the demo_mode flag *)
(* that index reports equals the mode analyze_feedback uses under the same *)
(* setting: index reports demo_mode true exactly when an accepted /analyze *)
(* request is answered by the keyword classifier without invoking the      *)
(* agent graph.                                                            *)
(***************************************************************************)
\* Request r is a GET / that has been answered.
IndexAnswered(r) == req[r].endpoint = "index" /\ req[r].pc = "done"

\* Accepted /analyze request q was answered by the classifier, the graph not
\* invoked.
AnsweredByClassifier(q) ==
  /\ "classifier" \in req[q].calls
  /\ "agent_graph" \notin req[q].calls

C11_IndexReportsAnalyzeMode ==
  \A r, q \in Requests :
    (IndexAnswered(r) /\ Answered(q) /\ req[q].status \in {200, 500}) =>
      (req[r].body.demo_mode <=> AnsweredByClassifier(q))

====
